---- MODULE Spec2Model ----
(***************************************************************************)
(* The session engine of UPC_PyGame_Phase2: src/src/core/game_world.py     *)
(* (GameWorld), src/src/core/game_objects.py (Triangle, Projectile and the *)
(* pymunk collision handlers), src/src/core/score_system.py (ScoreSystem)  *)
(* and the request handlers of src/src/api/api_endpoints.py.               *)
(*                                                                         *)
(* The request handlers are coroutines without an await between their      *)
(* reads and writes of the world, and GameWorld.update is a plain function *)
(* called from the physics task of the same event loop, so every handler   *)
(* and every tick is one atomic action; LoopSpec, at the end, follows the  *)
(* coroutines statement by statement.                                      *)
(*                                                                         *)
(* Time.  A tick lasts 1/TicksPerSecond seconds;                           *)
(* countdown_seconds_remaining and a projectile's lifetime, which the code *)
(* lowers by dt per tick, are counted in ticks.  The code reads            *)
(* time.time() only to store it (start_time, spawn_protection_until) and   *)
(* to compare it with a stored instant, so the instants are kept in whole  *)
(* seconds on an axis whose origin is the present: `now` is 0, an instant  *)
(* of the past is negative.  The wall clock advances by the action Elapse, *)
(* independently of the ticks (asyncio.sleep(dt) returns after dt or       *)
(* later); it moves the present to the next instant at which one of the    *)
(* code's comparisons changes its outcome.                                 *)
(***************************************************************************)
EXTENDS Integers, Sequences, FiniteSets, TLC

(* ------------------------------ bounds -------------------------------- *)
\* player identities uuid4 can hand out over the whole run
MaxIds == 2
\* ticks per second of the physics loop (the source runs FPS = 60)
TicksPerSecond == 1
\* projectiles registered at the same time
MaxProjectiles == 2
\* contact events (begin callbacks) pymunk reports within one space.step
MaxContacts == 2
\* cap of GameWorld.shot_count in the guard of shoot
MaxShots == 2
\* cap of GameWorld.player_collisions in the guard of a damaging obstacle contact
MaxCollisions == 4
\* cap of Triangle.collisions in the guard of a contact between two players
MaxBumps == 2
\* restart requests are served while every score stays at or above -ScoreFloor
ScoreFloor == 6
\* places of the arena, besides its centre, that touch no obstacle
MaxPlaces == 1
\* obstacles on which a random spawn position can land
MaxHitObstacles == 1
\* units of the rate limiter's clock per hundredth of a second
ClockPerCenti == 3
\* hundredths of a second the rate limiter's clock runs after the start
MaxCentis == 11
\* time.time() when the server starts, in units of the rate limiter's clock
StartClock == 200
\* (player, endpoint) pairs with a recorded call
MaxPairs == 2
\* a draw of random.uniform(-a, a) is one of the 2 * NoiseGrid + 1 values
\* a * k / NoiseGrid
NoiseGrid == 1
\* the true relative positions, velocities and distances a scan meets lie
\* between -MaxTrue and MaxTrue
MaxTrue == 1
\* entities within the scanning radius of one scan
MaxEntries == 1

(* ------------------------- program constants -------------------------- *)
PLAYER_START_HEALTH == 5
PROJECTILE_LIFETIME_SECONDS == 3
PROJECTILE_DAMAGE == 1
ALLOW_FRIENDLY_FIRE == FALSE
OBSTACLE_DAMAGE == 1
COUNTDOWN_DURATION == 1
MAX_GAME_DURATION == 30
spawn_protection_duration == 3
kill_points == 10
hit_points == 2
collision_penalty == 5
shot_penalty == 1
life_penalty == 1
NumObstacles == 8
\* the segments of add_borders
NumBorders == 4
\* settings.py: the ticks per second of the physics loop
FPS == 60
\* a Python float is a binary64 number: 53 significant bits
Mantissa == 53
\* the fraction bits of the numbers of FlightSpec: PHYSICS_DT < 2^-5 has its
\* 53 bits down to 2^-58
FracBits == 58
\* the digits of a number of FlightSpec and the bits of a digit: 60 bits,
\* PROJECTILE_LIFETIME_SECONDS < 4
Limbs == 4
LimbBits == 15
max_attempts == 10
\* the cooldowns of api_endpoints.py, in hundredths of a second
COOLDOWN_SCAN_ENVIRONMENT == 50
COOLDOWN_PLAYER_STATE == 50
COOLDOWN_GAME_STATE == 50
COOLDOWN_SHOOT == 10
\* the noise of scan_environment: offsets in hundredths, the distance noise
\* in percent
POSITION_NOISE_MAX_OFFSET == 80
VELOCITY_NOISE_MAX_OFFSET == 40
DISTANCE_NOISE_MAX_PERCENTAGE == 4

Ids == 1..MaxIds
\* time.time(): the present, the origin of the time axis
now == 0
\* start_time before GameWorld.update first sets the attribute (no instant of
\* the past or the present)
NoTime == 1

VARIABLES
    gw,          \* game_world_instance: the fields of GameWorld and of its ScoreSystem
    task_alive,  \* the asyncio task of _run_physics_loop has not ended
    player_cooldowns,  \* api_endpoints.player_cooldowns
    clock,       \* time.time() as check_cooldown reads it
    scanned,     \* the entry of nearby_objects scan_environment built last
    collisions,  \* Triangle.collisions of the sprite of each registered player
    flight,      \* a projectile in flight, its lifetime as the float the code keeps
    loop         \* the event loop of the server: the coroutine that runs, and where

vars == <<gw, task_alive, player_cooldowns, clock, scanned, collisions, flight, loop>>
\* the state of the rate limiter
limiter == <<player_cooldowns, clock>>
\* the state of the session
session == <<gw, task_alive>>
\* the state that ContactSpec, FlightSpec and LoopSpec follow
detail == <<collisions, flight, loop>>

(* ------------------------------ helpers ------------------------------- *)
Without(f, k) == [x \in DOMAIN f \ {k} |-> f[x]]
With(f, k, v) == [x \in DOMAIN f \cup {k} |-> IF x = k THEN v ELSE f[x]]
Min(S) == CHOOSE x \in S : \A y \in S : x <= y
Max(S) == CHOOSE x \in S : \A y \in S : x >= y
EmptyFn == [x \in {} |-> 0]
\* Python's None: add_player's return value when no player was added, and
\* safe_spawn_pos when no try found a position
None == 0

(* ------------------------------ positions ----------------------------- *)
\* A position is a place of the arena.  Two player shapes overlap when they
\* are at the same place; place -i lies on obstacle i; the other places
\* touch no obstacle.  centre: pymunk.Vec2d(self.width / 2, self.height / 2).
centre == 1
ObstaclePlace(i) == -i
Places ==
    {centre} \cup (centre + 1 .. centre + MaxPlaces)
        \cup {ObstaclePlace(i) : i \in 1..MaxHitObstacles}

\* random.uniform(pad, ...) of the tries after the first, draws[attempt] being
\* the position of try attempt + 1.  The loop looks for the first draw
\* without overlap, so the draws taken are those that repeat one place and
\* then another.
Draws ==
    {[i \in 1..max_attempts - 1 |-> IF i < k THEN c ELSE l] :
        k \in 1..max_attempts - 1, c \in Places, l \in Places}

all_ready(g) == \A p \in DOMAIN g.players : g.players[p].ready

(* ------------------------------ Triangle ------------------------------ *)
\* Triangle.__init__: a fresh player, its body and shape added to the space.
\* position is where the body was added: a body moves only by an impulse,
\* which it gets only during a match, and add_player places nobody during
\* a match.
Triangle(position) ==
    [position |-> position,
     health |-> PLAYER_START_HEALTH,
     ready |-> FALSE,
     spawn_protection_until |-> -1,
     \* set by GameWorld.shoot; read with getattr(player, "shots_fired", 0)
     shots_fired |-> 0,
     in_space |-> TRUE,
     \* the body is pymunk's; of its velocity and angular velocity the model
     \* keeps whether an impulse has changed them since the spawn
     impulse |-> FALSE]

\* GameWorld.__init__ (the 8 obstacles of initialize_world_objects included)
GameWorld ==
    [players |-> EmptyFn,
     objects |-> EmptyFn,
     obstacles |-> 1..NumObstacles,
     shot_count |-> 0,
     player_collisions |-> 0,
     next_color_index |-> 0,
     game_started |-> FALSE,
     waiting_for_players |-> TRUE,
     countdown_active |-> FALSE,
     countdown_seconds_remaining |-> 0,
     start_time |-> NoTime,
     scores |-> EmptyFn,
     \* history: how often projectile_hit_player called on_kill for the death
     \* of each victim
     kill_awards |-> [v \in Ids |-> 0],
     \* history: at the end of some operation since the running countdown
     \* started, a registered player was not ready
     unready_in_countdown |-> FALSE]

(* ---------------------------- ScoreSystem ----------------------------- *)
register_agent(g, agent_id) ==
    [g EXCEPT !.scores = With(g.scores, agent_id, 0)]

on_kill(g, killer_id) == [g EXCEPT !.scores[killer_id] = @ + kill_points]

on_hit(g, agent_id) == [g EXCEPT !.scores[agent_id] = @ + hit_points]

on_collision(g, agent_id) == [g EXCEPT !.scores[agent_id] = @ - collision_penalty]

on_shot(g, agent_id) == [g EXCEPT !.scores[agent_id] = @ - shot_penalty]

\* remaining_life: {pid: p.health for pid, p in self.players.items()}
on_game_end(g, remaining_life) ==
    [g EXCEPT !.scores = [a \in DOMAIN g.scores |->
        IF a \in DOMAIN remaining_life
        THEN g.scores[a] - remaining_life[a] * life_penalty
        ELSE g.scores[a]]]

remaining(g) == [p \in DOMAIN g.players |-> g.players[p].health]

(* -------------------- Triangle and Projectile methods ------------------ *)
\* take_damage without the check of lines 136-138: the fault that
\* ProtectedHealthUntouched tells from the code
take_damage_unprotected(g, t, pid, amount) ==
    LET h == g.players[pid].health - amount
    IN  [g EXCEPT !.players[pid].health = h,
                  !.players[pid].in_space = IF h <= 0 THEN FALSE ELSE @]

\* Triangle.take_damage at time t.  At health <= 0 the body and the shape
\* leave the space (pymunk performs a removal asked for inside a callback at
\* the end of the step); self.game_world.players is not touched.
take_damage(g, t, pid, amount) ==
    IF t < g.players[pid].spawn_protection_until
    THEN g
    ELSE LET h == g.players[pid].health - amount
         IN  [g EXCEPT !.players[pid].health = h,
                       !.players[pid].in_space =
                           IF h <= 0 THEN FALSE ELSE @]

\* Triangle.remove_from_world: out of the space and out of the registry
Triangle_remove_from_world(g, pid) ==
    [g EXCEPT !.players = Without(@, pid)]

\* Projectile.remove_from_world.  objects is the list self.objects without
\* the obstacles: the projectiles in the order of their creation.  Inside a
\* physics step j is the projectile's place in the list when the step began.
Projectile_remove_from_world(g, j) ==
    IF j \in DOMAIN g.objects
    THEN [g EXCEPT !.objects = Without(@, j)]
    ELSE g

\* Projectile.__init__
Projectile(owner) ==
    [owner |-> owner,
     lifetime |-> PROJECTILE_LIFETIME_SECONDS * TicksPerSecond]

\* Projectile.update removing the projectile only below 0: the fault that
\* RegisteredWhileAlive tells from the code
Projectile_update_late(g, j) ==
    IF g.objects[j].lifetime - 1 < 0
    THEN Projectile_remove_from_world(g, j)
    ELSE [g EXCEPT !.objects[j].lifetime = @ - 1]

\* Projectile.update(dt), one tick
Projectile_update(g, j) ==
    IF g.objects[j].lifetime - 1 <= 0
    THEN Projectile_remove_from_world(g, j)
    ELSE [g EXCEPT !.objects[j].lifetime = @ - 1]

RECURSIVE Projectile_updates(_, _)
Projectile_updates(g, J) ==
    IF J = {} THEN g
    ELSE Projectile_updates(Projectile_update(g, Min(J)), J \ {Min(J)})

\* the list left when the removed projectiles are gone
compact(f) ==
    [i \in 1..Cardinality(DOMAIN f) |->
        f[CHOOSE j \in DOMAIN f : Cardinality({k \in DOMAIN f : k <= j}) = i]]

(* ------------------------- collision handlers ------------------------- *)
\* player_hit_obstacle without the test of the speed (line 378): the fault
\* that ObstacleContactCounted tells from the code
player_hit_obstacle_any_speed(g, t, pid, fast) ==
    on_collision(
        [take_damage(g, t, pid, OBSTACLE_DAMAGE)
            EXCEPT !.player_collisions = @ + 1],
        pid)

\* player_hit_obstacle; fast: body.velocity.length >= PLAYER_MAX_SPEED * 0.9
player_hit_obstacle(g, t, pid, fast) ==
    IF fast
    THEN on_collision(
            [take_damage(g, t, pid, OBSTACLE_DAMAGE)
                EXCEPT !.player_collisions = @ + 1],
            pid)
    ELSE g

\* projectile_hit_player without the check of lines 418-421: the fault that
\* OwnHitIgnored tells from the code
projectile_hit_player_any_owner(g, t, j, owner, pid) ==
    LET g1 == take_damage(g, t, pid, PROJECTILE_DAMAGE)
        g2 == on_hit(g1, owner)
        g3 == IF g2.players[pid].health <= 0
              THEN [on_kill(g2, owner) EXCEPT !.kill_awards[pid] = @ + 1]
              ELSE g2
    IN  Projectile_remove_from_world(g3, j)

\* projectile_hit_player; the projectile's owner is read from the shape's
\* sprite, which outlives the projectile's removal from objects
projectile_hit_player(g, t, j, owner, pid) ==
    IF ~ALLOW_FRIENDLY_FIRE /\ owner = pid
    THEN g
    ELSE LET g1 == take_damage(g, t, pid, PROJECTILE_DAMAGE)
             g2 == on_hit(g1, owner)
             g3 == IF g2.players[pid].health <= 0
                   THEN [on_kill(g2, owner) EXCEPT !.kill_awards[pid] = @ + 1]
                   ELSE g2
         IN  Projectile_remove_from_world(g3, j)

\* projectile_hit_obstacle
projectile_hit_obstacle(g) == g

\* projectile_hit_border
projectile_hit_border(g, j) == Projectile_remove_from_world(g, j)

\* on_player_collision: only the per-player statistics counters change
on_player_collision(g) == g

(* ------------------------------ GameWorld ----------------------------- *)
\* players whose body and shape are in the space
InSpace(g) == {p \in DOMAIN g.players : g.players[p].in_space}

\* the shape query looking at player shapes only (collision type 1): the
\* fault that SpawnsClearOfShapes tells from the code
collision_found_players_only(g, potential_pos) ==
    \E p \in InSpace(g) : g.players[p].position = potential_pos

\* add_player, lines 108-113: self.space.shape_query(temp_shape) reports a
\* shape of collision type 1 (player) or 2 (obstacle)
collision_found(g, potential_pos) ==
    \/ \E p \in InSpace(g) : g.players[p].position = potential_pos
    \/ \E i \in g.obstacles : ObstaclePlace(i) = potential_pos

\* add_player, lines 89-118: the loop over range(max_attempts), from try
\* number attempt on; tries counts the passes made
RECURSIVE spawn_search(_, _, _)
spawn_search(g, draws, attempt) ==
    IF attempt >= max_attempts
    THEN [safe_spawn_pos |-> None, tries |-> attempt]
    ELSE LET potential_pos == IF attempt = 0 THEN centre ELSE draws[attempt]
         IN  IF ~collision_found(g, potential_pos)
             THEN [safe_spawn_pos |-> potential_pos, tries |-> attempt + 1]
             ELSE spawn_search(g, draws, attempt + 1)

\* add_player advancing the colour index before it knows whether a position
\* was found: the fault that SpawnSearchBounded tells from the code
add_player_counts_early(g, player_id, draws) ==
    IF g.game_started
    THEN [gw |-> g, ret |-> None, tries |-> 0]
    ELSE LET found == spawn_search(g, draws, 0)
             g1 == [g EXCEPT !.next_color_index = @ + 1]
         IN  IF found.safe_spawn_pos # None
             THEN [gw |-> register_agent(
                        [g1 EXCEPT !.players = With(@, player_id,
                                        Triangle(found.safe_spawn_pos))],
                        player_id),
                   ret |-> player_id,
                   tries |-> found.tries]
             ELSE [gw |-> g1, ret |-> None, tries |-> found.tries]

\* add_player without the check of lines 80-82: the fault that
\* RunningAdmitsNobody tells from the code
add_player_during_match(g, player_id, draws) ==
    LET found == spawn_search(g, draws, 0)
    IN  IF found.safe_spawn_pos # None
        THEN [gw |-> register_agent(
                    [g EXCEPT !.next_color_index = @ + 1,
                              !.players = With(@, player_id,
                                    Triangle(found.safe_spawn_pos))],
                    player_id),
              ret |-> player_id,
              tries |-> found.tries]
        ELSE [gw |-> g, ret |-> None, tries |-> found.tries]

\* GameWorld.add_player.  player_id: given_player_id, or str(uuid.uuid4()).
add_player(g, player_id, draws) ==
    IF g.game_started
    THEN [gw |-> g, ret |-> None, tries |-> 0]
    ELSE LET found == spawn_search(g, draws, 0)
         IN  IF found.safe_spawn_pos # None
             THEN [gw |-> register_agent(
                        [g EXCEPT !.next_color_index = @ + 1,
                                  !.players = With(@, player_id,
                                        Triangle(found.safe_spawn_pos))],
                        player_id),
                   ret |-> player_id,
                   tries |-> found.tries]
             ELSE [gw |-> g, ret |-> None, tries |-> found.tries]

\* GameWorld.remove_player
remove_player(g, player_id) ==
    IF player_id \in DOMAIN g.players
    THEN Triangle_remove_from_world(g, player_id)
    ELSE g

\* check_if_all_players_ready with the assignment of line 234
\* (self.waiting_for_players = False) left out: the fault that
\* PhaseFlagsConsistent tells from the code
check_if_all_players_ready_keeps_waiting(g, t) ==
    IF DOMAIN g.players = {}
    THEN [g EXCEPT !.waiting_for_players = TRUE,
                   !.game_started = FALSE,
                   !.countdown_active = FALSE]
    ELSE IF all_ready(g) /\ g.waiting_for_players /\ ~g.countdown_active
    THEN [g EXCEPT
            !.countdown_active = TRUE,
            !.countdown_seconds_remaining = COUNTDOWN_DURATION * TicksPerSecond,
            !.players = [p \in DOMAIN g.players |->
                [g.players[p] EXCEPT !.spawn_protection_until =
                    t + spawn_protection_duration + COUNTDOWN_DURATION]]]
    ELSE IF ~all_ready(g) /\ g.countdown_active
    THEN [g EXCEPT !.countdown_active = FALSE,
                   !.waiting_for_players = TRUE]
    ELSE IF ~all_ready(g) /\ ~g.game_started
    THEN [g EXCEPT !.waiting_for_players = TRUE,
                   !.game_started = FALSE]
    ELSE g

\* GameWorld.check_if_all_players_ready at time t
check_if_all_players_ready(g, t) ==
    IF DOMAIN g.players = {}
    THEN [g EXCEPT !.waiting_for_players = TRUE,
                   !.game_started = FALSE,
                   !.countdown_active = FALSE]
    ELSE IF all_ready(g) /\ g.waiting_for_players /\ ~g.countdown_active
    THEN [g EXCEPT
            !.countdown_active = TRUE,
            !.countdown_seconds_remaining = COUNTDOWN_DURATION * TicksPerSecond,
            !.waiting_for_players = FALSE,
            !.players = [p \in DOMAIN g.players |->
                [g.players[p] EXCEPT !.spawn_protection_until =
                    t + spawn_protection_duration + COUNTDOWN_DURATION]]]
    ELSE IF ~all_ready(g) /\ g.countdown_active
    THEN [g EXCEPT !.countdown_active = FALSE,
                   !.waiting_for_players = TRUE]
    ELSE IF ~all_ready(g) /\ ~g.game_started
    THEN [g EXCEPT !.waiting_for_players = TRUE,
                   !.game_started = FALSE]
    ELSE g

\* GameWorld.player_ready
player_ready(g, t, player_id) ==
    IF player_id \notin DOMAIN g.players THEN g
    ELSE IF g.game_started THEN g
    ELSE IF ~g.players[player_id].ready
    THEN check_if_all_players_ready(
            [g EXCEPT !.players[player_id].ready = TRUE], t)
    ELSE g

\* the thrust without the check of game_started: the fault that
\* ActionsIgnoredOutsideMatch tells from the code
player_thrust_any_phase(g, player_id) ==
    IF player_id \notin DOMAIN g.players THEN g
    ELSE [g EXCEPT !.players[player_id].impulse = TRUE]

\* GameWorld.positive_player_thrust and negative_player_thrust
player_thrust(g, player_id) ==
    IF ~g.game_started THEN g
    ELSE IF player_id \notin DOMAIN g.players THEN g
    ELSE [g EXCEPT !.players[player_id].impulse = TRUE]

\* GameWorld.right_player_rotation and left_player_rotation
player_rotation(g, player_id) ==
    IF ~g.game_started THEN g
    ELSE IF player_id \notin DOMAIN g.players THEN g
    ELSE [g EXCEPT !.players[player_id].impulse = TRUE]

\* shoot without the check of lines 329-331: the fault that
\* ShootRefusedUnderProtection tells from the code
shoot_while_protected(g, t, player_id) ==
    IF ~g.game_started THEN g
    ELSE IF player_id \notin DOMAIN g.players THEN g
    ELSE on_shot(
            [g EXCEPT !.players[player_id].shots_fired = @ + 1,
                      !.objects = With(@, Cardinality(DOMAIN @) + 1,
                                       Projectile(player_id)),
                      !.shot_count = @ + 1],
            player_id)

\* shoot without the call of increment_shot_count (line 355): the fault
\* that ShootFiresOnce tells from the code
shoot_uncounted(g, t, player_id) ==
    IF ~g.game_started THEN g
    ELSE IF player_id \notin DOMAIN g.players THEN g
    ELSE IF t < g.players[player_id].spawn_protection_until THEN g
    ELSE on_shot(
            [g EXCEPT !.players[player_id].shots_fired = @ + 1,
                      !.objects = With(@, Cardinality(DOMAIN @) + 1,
                                       Projectile(player_id))],
            player_id)

\* GameWorld.shoot at time t
shoot(g, t, player_id) ==
    IF ~g.game_started THEN g
    ELSE IF player_id \notin DOMAIN g.players THEN g
    ELSE IF t < g.players[player_id].spawn_protection_until THEN g
    ELSE on_shot(
            [g EXCEPT !.players[player_id].shots_fired = @ + 1,
                      !.objects = With(@, Cardinality(DOMAIN @) + 1,
                                       Projectile(player_id)),
                      !.shot_count = @ + 1],
            player_id)

\* GameWorld.plot_game_statistics: the rows it writes, one per registered
\* player, with get_score(pid)
plot_game_statistics(g) == [p \in DOMAIN g.players |-> g.scores[p]]

\* GameWorld.restart_game.  Line 480 calls plot_csv_statistics, a name that
\* no module of the repository binds: the call raises NameError, and the
\* statements after it (lines 482-520) are never executed.
restart_game(g) ==
    LET g1 == on_game_end(g, remaining(g))
    IN  [gw |-> g1, raised |-> TRUE, recorded |-> plot_game_statistics(g1)]

(* ------------------------- the physics step --------------------------- *)
\* The begin callbacks space.step can make for the shapes that are in the
\* space when the step starts.  A player touches an obstacle or another
\* player only after an impulse has moved it.
Contacts(g) ==
    {[kind |-> "player_obstacle", p |-> p, j |-> 0, fast |-> f] :
        p \in {q \in InSpace(g) : g.players[q].impulse},
        f \in {b \in BOOLEAN : b => g.player_collisions < MaxCollisions}}
    \cup {[kind |-> "projectile_player", p |-> p, j |-> j, fast |-> FALSE] :
        p \in InSpace(g), j \in DOMAIN g.objects}
    \cup {[kind |-> "projectile_border", p |-> 0, j |-> j, fast |-> FALSE] :
        j \in DOMAIN g.objects}
    \cup {[kind |-> "projectile_obstacle", p |-> 0, j |-> j, fast |-> FALSE] :
        j \in DOMAIN g.objects}
    \cup {[kind |-> "player_player", p |-> p, j |-> 0, fast |-> FALSE] :
        p \in {q \in InSpace(g) : g.players[q].impulse
                                   /\ Cardinality(InSpace(g)) > 1}}

\* the pair of shapes of a contact: pymunk calls begin once per pair
Pair(e) == <<e.kind, e.p, e.j>>

\* the callbacks that change a field of the world
Effective(g) ==
    {e \in Contacts(g) :
        \/ e.kind \in {"projectile_player", "projectile_border"}
        \/ e.kind = "player_obstacle" /\ e.fast}

\* The sequences of callbacks of one step, in the order pymunk makes them.
\* A callback that changes nothing leaves the outcome of the others as it
\* is, so it is taken alone.
ContactSeqs(g) ==
    {s \in UNION {[1..n -> Effective(g)] : n \in 0..MaxContacts} :
        \A a, b \in DOMAIN s : a # b => Pair(s[a]) # Pair(s[b])}
    \cup {<<e>> : e \in Contacts(g)}

\* setup_collision_handlers: the handler of each pair of collision types.
\* g0 is the world when the step started.
begin(g, g0, t, e) ==
    CASE e.kind = "player_obstacle" -> player_hit_obstacle(g, t, e.p, e.fast)
      [] e.kind = "projectile_player" ->
            projectile_hit_player(g, t, e.j, g0.objects[e.j].owner, e.p)
      [] e.kind = "projectile_border" -> projectile_hit_border(g, e.j)
      [] e.kind = "projectile_obstacle" -> projectile_hit_obstacle(g)
      [] e.kind = "player_player" -> on_player_collision(g)

RECURSIVE callbacks(_, _, _, _)
callbacks(g, g0, t, s) ==
    IF s = <<>> THEN g
    ELSE callbacks(begin(g, g0, t, Head(s)), g0, t, Tail(s))

\* self.space.step(dt) with the callbacks s
space_step(g, t, s) == callbacks(g, g, t, s)

\* shape.sprite_ref.update(dt) for every shape left in the space
sprite_updates(g) ==
    LET g1 == Projectile_updates(g, DOMAIN g.objects)
    IN  [g1 EXCEPT !.objects = compact(@)]

\* the countdown without the final readiness check of line 399: the fault
\* that RunningOnlyFromCountdown tells from the code
countdown_logic_unchecked(g, t) ==
    IF ~g.countdown_active THEN g
    ELSE IF g.countdown_seconds_remaining - 1 > 0
    THEN [g EXCEPT !.countdown_seconds_remaining = @ - 1]
    ELSE [g EXCEPT !.countdown_seconds_remaining = 0,
                   !.waiting_for_players = FALSE,
                   !.game_started = TRUE,
                   !.countdown_active = FALSE,
                   !.start_time = t]

\* GameWorld.update, lines 392-410: the countdown
countdown_logic(g, t) ==
    IF ~g.countdown_active THEN g
    ELSE IF g.countdown_seconds_remaining - 1 > 0
    THEN [g EXCEPT !.countdown_seconds_remaining = @ - 1]
    ELSE IF DOMAIN g.players # {} /\ all_ready(g)
    THEN [g EXCEPT !.countdown_seconds_remaining = 0,
                   !.waiting_for_players = FALSE,
                   !.game_started = TRUE,
                   !.countdown_active = FALSE,
                   !.start_time = t]
    ELSE [g EXCEPT !.countdown_seconds_remaining = 0,
                   !.countdown_active = FALSE,
                   !.waiting_for_players = TRUE]

\* GameWorld.update, lines 413-420: nobody is registered
empty_session_reset(g) ==
    IF DOMAIN g.players # {} THEN g
    ELSE [g EXCEPT !.game_started = FALSE,
                   !.waiting_for_players = TRUE,
                   !.countdown_active = FALSE,
                   !.countdown_seconds_remaining = 0,
                   !.shot_count = 0,
                   !.player_collisions = 0,
                   !.next_color_index = 0]

\* the match has run longer than MAX_GAME_DURATION
timed_out(g, t) ==
    g.game_started /\ g.start_time # NoTime
        /\ t - g.start_time > MAX_GAME_DURATION

\* GameWorld.update(dt) at time t with the callbacks s
update(g, t, s) ==
    IF timed_out(g, t)
    THEN restart_game(on_game_end(g, remaining(g)))
    ELSE LET g0 == IF g.game_started /\ g.start_time = NoTime
                   THEN [g EXCEPT !.start_time = t] ELSE g
             g1 == sprite_updates(space_step(g0, t, s))
         IN  [gw |-> empty_session_reset(countdown_logic(g1, t)),
              raised |-> FALSE,
              recorded |-> EmptyFn]

(* ------------------------- the rate limiter --------------------------- *)
\* The clock of the rate limiter counts ClockPerCenti units per hundredth of
\* a second; a cooldown of c hundredths lasts Units(c).
Units(c) == c * ClockPerCenti

\* f"{remaining_cooldown:.2f}": the seconds of the wait hint as the answer
\* shows them, in hundredths, rounded to the nearest
two_decimals(remaining_cooldown) ==
    (2 * remaining_cooldown + ClockPerCenti) \div (2 * ClockPerCenti)

\* player_cooldowns[player_id].get(endpoint_name, 0)
last_call_of(cd, player_id, endpoint_name) ==
    IF player_id \in DOMAIN cd /\ endpoint_name \in DOMAIN cd[player_id]
    THEN cd[player_id][endpoint_name]
    ELSE 0

\* check_cooldown recording the time of a rejected call too: the fault that
\* CooldownAcceptance tells from the code
check_cooldown_stamps_always(cd, t, player_id, endpoint_name, cooldown_duration) ==
    LET cd1 == IF player_id \in DOMAIN cd THEN cd
               ELSE With(cd, player_id, EmptyFn)
        last_call == last_call_of(cd1, player_id, endpoint_name)
        cd2 == [cd1 EXCEPT ![player_id] = With(@, endpoint_name, t)]
    IN  IF t - last_call < cooldown_duration
        THEN [player_cooldowns |-> cd2,
              status |-> 429,
              wait |-> two_decimals(cooldown_duration - (t - last_call))]
        ELSE [player_cooldowns |-> cd2, status |-> 200, wait |-> 0]

\* check_cooldown at time t.  status 429: the HTTPException raised; wait: the
\* seconds its detail names, in hundredths.  status 200: the call returned
\* True.
check_cooldown(cd, t, player_id, endpoint_name, cooldown_duration) ==
    LET cd1 == IF player_id \in DOMAIN cd THEN cd
               ELSE With(cd, player_id, EmptyFn)
        last_call == last_call_of(cd1, player_id, endpoint_name)
    IN  IF t - last_call < cooldown_duration
        THEN [player_cooldowns |-> cd1,
              status |-> 429,
              wait |-> two_decimals(cooldown_duration - (t - last_call))]
        ELSE [player_cooldowns |->
                    [cd1 EXCEPT ![player_id] = With(@, endpoint_name, t)],
              status |-> 200,
              wait |-> 0]

(* ------------------------------ queries ------------------------------- *)
\* a scan that drops the projectiles it has listed: the fault that
\* ScanLeavesWorld tells from the code
scan_environment_consuming(g, player_id) ==
    IF ~g.game_started \/ player_id \notin DOMAIN g.players
    THEN [gw |-> g, ret |-> [message |-> "", nearby_objects |-> {}]]
    ELSE [gw |-> [g EXCEPT !.objects = EmptyFn],
          ret |-> [message |-> "",
                   nearby_objects |->
                        {<<"projectile", j>> : j \in DOMAIN g.objects}]]

\* GameWorld.scan_environment: gw is the world the call leaves; ret tells
\* the answer's message and the entities the answer can list (the obstacles
\* and projectiles of self.objects, the other players, the borders)
scan_environment(g, player_id) ==
    IF ~g.game_started
    THEN [gw |-> g, ret |-> [message |-> "Game not started yet.",
                             nearby_objects |-> {}]]
    ELSE IF player_id \notin DOMAIN g.players
    THEN [gw |-> g, ret |-> [message |-> "not found.",
                             nearby_objects |-> {}]]
    ELSE [gw |-> g,
          ret |-> [message |-> "",
                   nearby_objects |->
                        {<<"obstacle", i>> : i \in g.obstacles}
                        \cup {<<"projectile", j>> : j \in DOMAIN g.objects}
                        \cup {<<"other_player", q>> :
                                q \in DOMAIN g.players \ {player_id}}
                        \cup {<<"border", b>> : b \in 1..NumBorders}]]

\* scan_environment, lines 554-653: the entries of nearby_objects when near
\* is the set of the entities for which the code computes a distance of
\* SCANNING_RADIUS or less (lines 559-561, 601-604, 633-636)
scan_records(g, player_id, near) ==
    scan_environment(g, player_id).ret.nearby_objects \cap near

\* GameWorld.player_state: the answer, or nothing (Python's None) for an
\* identity that is not registered
player_state(g, player_id) ==
    IF player_id \in DOMAIN g.players
    THEN <<[health |-> g.players[player_id].health,
            impulse |-> g.players[player_id].impulse]>>
    ELSE <<>>

\* GameWorld.game_state
game_state(g, player_id) ==
    IF player_id \in DOMAIN g.players
    THEN <<[game_started |-> g.game_started,
            waiting_for_players |-> g.waiting_for_players,
            countdown_active |-> g.countdown_active,
            countdown_seconds_remaining |->
                IF g.countdown_active THEN g.countdown_seconds_remaining
                ELSE 0,
            ready |-> g.players[player_id].ready]>>
    ELSE <<>>

(* ------------------------- answers of the API ------------------------- *)
\* status: 200, or the status_code of the HTTPException raised
\* GET /player/{player_id}/scan
get_scan_environment_response(g, cd, t, player_id) ==
    LET c == check_cooldown(cd, t, player_id, "scan_environment",
                            Units(COOLDOWN_SCAN_ENVIRONMENT))
    IN  IF c.status = 429
        THEN [gw |-> g, player_cooldowns |-> c.player_cooldowns,
              status |-> 429, wait |-> c.wait]
        ELSE [gw |-> scan_environment(g, player_id).gw,
              player_cooldowns |-> c.player_cooldowns,
              status |-> 200, wait |-> 0]

\* GET /player/{player_id}/state
get_player_own_state_response(g, cd, t, player_id) ==
    LET c == check_cooldown(cd, t, player_id, "state",
                            Units(COOLDOWN_PLAYER_STATE))
    IN  IF c.status = 429
        THEN [gw |-> g, player_cooldowns |-> c.player_cooldowns,
              status |-> 429, wait |-> c.wait]
        ELSE [gw |-> g, player_cooldowns |-> c.player_cooldowns,
              status |-> IF player_state(g, player_id) = <<>> THEN 404 ELSE 200,
              wait |-> 0]

\* GET /player/{player_id}/game-state
get_overall_game_state_response(g, cd, t, player_id) ==
    LET c == check_cooldown(cd, t, player_id, "game_state",
                            Units(COOLDOWN_GAME_STATE))
    IN  IF c.status = 429
        THEN [gw |-> g, player_cooldowns |-> c.player_cooldowns,
              status |-> 429, wait |-> c.wait]
        ELSE [gw |-> g, player_cooldowns |-> c.player_cooldowns,
              status |-> IF game_state(g, player_id) = <<>> THEN 404 ELSE 200,
              wait |-> 0]

\* POST /player/{player_id}/shoot
shoot_response(g, cd, t, player_id) ==
    IF player_id \notin DOMAIN g.players
    THEN [gw |-> g, player_cooldowns |-> cd, status |-> 404, wait |-> 0]
    ELSE LET c == check_cooldown(cd, t, player_id, "shoot",
                                 Units(COOLDOWN_SHOOT))
         IN  IF c.status = 429
             THEN [gw |-> g, player_cooldowns |-> c.player_cooldowns,
                   status |-> 429, wait |-> c.wait]
             ELSE [gw |-> shoot(g, now, player_id),
                   player_cooldowns |-> c.player_cooldowns,
                   status |-> 200, wait |-> 0]

\* POST /disconnect/{player_id}, /player/ready/{player_id},
\* /player/{player_id}/thrust_forward, thrust_backward, rotate_right and
\* rotate_left: the status of the answer
unlimited_response(g, player_id) ==
    IF player_id \notin DOMAIN g.players THEN 404 ELSE 200

(* ------------------------------ actions ------------------------------- *)
\* nothing counted, no projectile followed, no coroutine on the event loop
DetailInit ==
    /\ collisions = <<>>
    /\ flight = <<>>
    /\ loop = <<>>

\* the history of the countdown, brought up to date when an operation ends
seen(g) ==
    [g EXCEPT !.unready_in_countdown =
        g.countdown_active /\ (@ \/ ~all_ready(g))]

Init ==
    /\ gw = GameWorld
    /\ now = 0
    /\ task_alive = TRUE
    /\ player_cooldowns = EmptyFn
    /\ clock = StartClock
    /\ scanned = <<>>
    /\ DetailInit

\* str(uuid.uuid4()): an identity never handed out before.  Which one it is
\* has no influence on the code, so the identities are handed out in order.
uuid4(g) == Min(Ids \ DOMAIN g.scores)

\* POST /connect: the body of the answer
connect_player_response(g, player_id, draws) ==
    [player_id |-> add_player(g, player_id, draws).ret]

\* POST /connect
connect_player ==
    /\ Ids \ DOMAIN gw.scores # {}
    /\ \E draws \in Draws :
        gw' = seen(add_player(gw, uuid4(gw), draws).gw)
    /\ UNCHANGED <<task_alive, limiter, scanned, detail>>

\* POST /disconnect/{player_id}
disconnect_player(player_id) ==
    /\ gw' = seen(IF player_id \notin DOMAIN gw.players
                  THEN gw
                  ELSE remove_player(gw, player_id))
    /\ UNCHANGED <<task_alive, limiter, scanned, detail>>

\* POST /player/ready/{player_id}
ready_to_play(player_id) ==
    /\ gw' = seen(IF player_id \notin DOMAIN gw.players
                  THEN gw
                  ELSE player_ready(gw, now, player_id))
    /\ UNCHANGED <<task_alive, limiter, scanned, detail>>

\* POST /player/{player_id}/thrust_forward
thrust_forward(player_id) ==
    /\ gw' = seen(IF player_id \notin DOMAIN gw.players
                  THEN gw
                  ELSE player_thrust(gw, player_id))
    /\ UNCHANGED <<task_alive, limiter, scanned, detail>>

\* POST /player/{player_id}/thrust_backward
thrust_backward(player_id) ==
    /\ gw' = seen(IF player_id \notin DOMAIN gw.players
                  THEN gw
                  ELSE player_thrust(gw, player_id))
    /\ UNCHANGED <<task_alive, limiter, scanned, detail>>

\* POST /player/{player_id}/rotate_right
rotate_right(player_id) ==
    /\ gw' = seen(IF player_id \notin DOMAIN gw.players
                  THEN gw
                  ELSE player_rotation(gw, player_id))
    /\ UNCHANGED <<task_alive, limiter, scanned, detail>>

\* POST /player/{player_id}/rotate_left
rotate_left(player_id) ==
    /\ gw' = seen(IF player_id \notin DOMAIN gw.players
                  THEN gw
                  ELSE player_rotation(gw, player_id))
    /\ UNCHANGED <<task_alive, limiter, scanned, detail>>

\* the call would create a projectile
fires(g, t, player_id) ==
    /\ g.game_started
    /\ player_id \in DOMAIN g.players
    /\ t >= g.players[player_id].spawn_protection_until

\* POST /player/{player_id}/shoot, for a request that check_cooldown lets
\* pass: Spec keeps no clock of the grain of the cooldowns (ApiSpec does),
\* and a request that check_cooldown rejects leaves the world as it is.
shoot_endpoint(player_id) ==
    /\ fires(gw, now, player_id) =>
            gw.shot_count < MaxShots
                /\ Cardinality(DOMAIN gw.objects) < MaxProjectiles
    /\ gw' = seen(IF player_id \notin DOMAIN gw.players
                  THEN gw
                  ELSE shoot(gw, now, player_id))
    /\ UNCHANGED <<task_alive, limiter, scanned, detail>>

\* GET /player/{player_id}/scan, /state and /game-state
queries(player_id) ==
    /\ gw' = scan_environment(gw, player_id).gw
    /\ UNCHANGED <<task_alive, limiter, scanned, detail>>

\* POST /game/restart: an exception of restart_game leaves the handler
\* (FastAPI answers 500)
restart_game_endpoint ==
    /\ \A p \in DOMAIN gw.players :
            gw.scores[p] - gw.players[p].health * life_penalty >= -ScoreFloor
    /\ gw' = seen(restart_game(gw).gw)
    /\ UNCHANGED <<task_alive, limiter, scanned, detail>>

\* One pass of the loop of _run_physics_loop: self.update(dt).  An exception
\* of update ends the coroutine and with it the task; nothing restarts it.
Tick ==
    /\ task_alive
    /\ \E s \in ContactSeqs(gw) :
        LET r == update(gw, now, s)
        IN  /\ gw' = seen(r.gw)
            /\ task_alive' = ~r.raised
    /\ UNCHANGED <<limiter, scanned, detail>>

\* the seconds until a clock comparison of the code changes its outcome: a
\* spawn protection ends (shoot, take_damage), the match has lasted longer
\* than MAX_GAME_DURATION (update)
Deadlines(g) ==
    {g.players[p].spawn_protection_until - now : p \in DOMAIN g.players}
    \cup (IF g.game_started /\ g.start_time # NoTime
          THEN {g.start_time + MAX_GAME_DURATION + 1 - now} ELSE {})

\* The stored instants seen d seconds later.  The code asks of a
\* spawn_protection_until only whether it lies in the future, so one that
\* does not is kept as -1, the value of Triangle.__init__.  It reads
\* start_time only during a match, to ask whether the match is older than
\* MAX_GAME_DURATION, and writes it when a match starts: start_time ages
\* during a match, up to MAX_GAME_DURATION + 1.
later(g, d) ==
    [g EXCEPT
        !.players = [p \in DOMAIN g.players |->
            [g.players[p] EXCEPT !.spawn_protection_until =
                IF @ - d > now THEN @ - d ELSE -1]],
        !.start_time = IF @ = NoTime \/ ~g.game_started THEN @
                       ELSE Max({@ - d, now - (MAX_GAME_DURATION + 1)})]

\* One pass of the loop of run_visualizer, which main.py runs in the main
\* thread while the server and the physics task run in another one:
\* all_game_sprites.update(dt_visual) calls Projectile.update on every
\* projectile of self.objects (and Triangle.update, which caps the speed of
\* the body, on every player of health above 0).  dt_visual is the time since
\* the pass before, clock.tick(FPS) / 1000: one tick's worth.
run_visualizer ==
    /\ gw' = seen(sprite_updates(gw))
    /\ UNCHANGED <<task_alive, limiter, scanned, detail>>

\* the wall clock advances
Elapse ==
    /\ \E d \in Deadlines(gw) :
        /\ d > 0
        /\ gw' = seen(later(gw, d))
    /\ UNCHANGED <<task_alive, limiter, scanned, detail>>

Next ==
    \/ connect_player
    \/ \E player_id \in Ids : disconnect_player(player_id)
    \/ \E player_id \in Ids : ready_to_play(player_id)
    \/ \E player_id \in Ids : thrust_forward(player_id)
    \/ \E player_id \in Ids : thrust_backward(player_id)
    \/ \E player_id \in Ids : rotate_right(player_id)
    \/ \E player_id \in Ids : rotate_left(player_id)
    \/ \E player_id \in Ids : shoot_endpoint(player_id)
    \/ \E player_id \in Ids : queries(player_id)
    \/ restart_game_endpoint
    \/ Tick
    \/ run_visualizer
    \/ Elapse

Spec == Init /\ [][Next]_vars

(* ---------------- the rate limiter and the answers -------------------- *)
\* ApiSpec follows player_cooldowns and the clock at the grain of the
\* cooldowns, for the requests that go through check_cooldown, in a world
\* that no tick and no other request changes.
Endpoints == {"scan_environment", "state", "game_state", "shoot"}

cooldown_of(endpoint_name) ==
    CASE endpoint_name = "scan_environment" -> Units(COOLDOWN_SCAN_ENVIRONMENT)
      [] endpoint_name = "state" -> Units(COOLDOWN_PLAYER_STATE)
      [] endpoint_name = "game_state" -> Units(COOLDOWN_GAME_STATE)
      [] endpoint_name = "shoot" -> Units(COOLDOWN_SHOOT)

\* the pairs with a recorded call
stamped(cd) ==
    {pe \in Ids \X Endpoints :
        pe[1] \in DOMAIN cd /\ pe[2] \in DOMAIN cd[pe[1]]}

\* the request is taken while the number of recorded pairs allows it
served(player_id, endpoint_name) ==
    \/ <<player_id, endpoint_name>> \in stamped(player_cooldowns)
    \/ Cardinality(stamped(player_cooldowns)) < MaxPairs

\* the worlds of ApiSpec: nobody registered, or the first player registered
ApiWorlds ==
    {GameWorld}
        \cup {add_player(GameWorld, uuid4(GameWorld), draws).gw : draws \in Draws}

ApiInit ==
    /\ gw \in ApiWorlds
    /\ task_alive = TRUE
    /\ player_cooldowns = EmptyFn
    /\ clock = StartClock
    /\ scanned = <<>>
    /\ DetailInit

get_scan_environment(player_id) ==
    /\ served(player_id, "scan_environment")
    /\ LET r == get_scan_environment_response(gw, player_cooldowns, clock, player_id)
       IN  gw' = r.gw /\ player_cooldowns' = r.player_cooldowns
    /\ UNCHANGED <<task_alive, clock, scanned, detail>>

get_player_own_state(player_id) ==
    /\ served(player_id, "state")
    /\ LET r == get_player_own_state_response(gw, player_cooldowns, clock, player_id)
       IN  gw' = r.gw /\ player_cooldowns' = r.player_cooldowns
    /\ UNCHANGED <<task_alive, clock, scanned, detail>>

get_overall_game_state(player_id) ==
    /\ served(player_id, "game_state")
    /\ LET r == get_overall_game_state_response(gw, player_cooldowns, clock, player_id)
       IN  gw' = r.gw /\ player_cooldowns' = r.player_cooldowns
    /\ UNCHANGED <<task_alive, clock, scanned, detail>>

post_shoot(player_id) ==
    /\ served(player_id, "shoot")
    /\ LET r == shoot_response(gw, player_cooldowns, clock, player_id)
       IN  gw' = r.gw /\ player_cooldowns' = r.player_cooldowns
    /\ UNCHANGED <<task_alive, clock, scanned, detail>>

\* the clock of the rate limiter advances by one unit
clock_advances ==
    /\ clock < StartClock + Units(MaxCentis)
    /\ clock' = clock + 1
    /\ UNCHANGED <<gw, task_alive, player_cooldowns, scanned, detail>>

ApiNext ==
    \/ \E player_id \in Ids : get_scan_environment(player_id)
    \/ \E player_id \in Ids : get_player_own_state(player_id)
    \/ \E player_id \in Ids : get_overall_game_state(player_id)
    \/ \E player_id \in Ids : post_shoot(player_id)
    \/ clock_advances

ApiSpec == ApiInit /\ [][ApiNext]_vars

(* ------------------------------ properties ---------------------------- *)
\* the tick finds the match older than MAX_GAME_DURATION
TimeoutTick == Tick /\ timed_out(gw, now)

\* C1: the phase becomes RUNNING only in a tick in which an active countdown
\* reaches zero while at least one player is registered and every registered
\* player is ready; no other operation sets the phase to RUNNING.
RunningOnlyFromCountdown ==
    [][(~gw.game_started /\ gw'.game_started) =>
            /\ Tick
            /\ gw.countdown_active
            /\ gw.countdown_seconds_remaining - 1 <= 0
            /\ gw'.countdown_seconds_remaining = 0
            /\ DOMAIN gw'.players = DOMAIN gw.players
            /\ DOMAIN gw'.players # {}
            /\ all_ready(gw')]_vars

\* a match of two players has just started
RunningEntered ==
    /\ gw.game_started
    /\ gw.start_time = now
    /\ Cardinality(DOMAIN gw.players) = 2
    /\ all_ready(gw)

\* C2: after a completed operation the session is never in WAITING with a
\* non-empty registry whose players are all ready: the moment the last
\* unready player turns ready, or leaves, the countdown starts.
NeverWaitingWhenAllReady ==
    ~(gw.waiting_for_players /\ DOMAIN gw.players # {} /\ all_ready(gw))

\* C3: exactly one of the three phase flags is set; in RUNNING a start
\* timestamp is recorded; in COUNTDOWN the remaining time is above zero.
PhaseFlagsConsistent ==
    /\ Cardinality({f \in {"waiting_for_players", "countdown_active",
                            "game_started"} : gw[f]}) = 1
    /\ gw.game_started => gw.start_time # NoTime
    /\ gw.countdown_active => gw.countdown_seconds_remaining > 0

\* the countdown of a later match runs: the start timestamp of the match
\* before is still recorded
LaterCountdown ==
    /\ gw.countdown_active
    /\ gw.countdown_seconds_remaining > 0
    /\ gw.start_time # NoTime

\* C4: the health of every registered player lies between 0 and
\* PLAYER_START_HEALTH, also when several damaging contacts reach the same
\* player within one physics step.
HealthWithinBounds ==
    \A p \in DOMAIN gw.players :
        0 <= gw.players[p].health /\ gw.players[p].health <= PLAYER_START_HEALTH

\* C5: a player whose health has dropped to zero or below is out of the
\* registry when the step that dealt the damage is over.
DeadPlayersUnregistered ==
    \A p \in DOMAIN gw.players : gw.players[p].health > 0

\* C6: the points for the kill of a victim are awarded at most once, also
\* when several damaging hits reach the victim at the same moment.
KillAwardedOncePerVictim ==
    \A v \in Ids : gw.kill_awards[v] <= 1

\* C7: when a match ends, by timeout or by restart_game, the life penalty is
\* subtracted once from the score of every player still registered, and the
\* score recorded for the player is the score after that one subtraction.
LifePenaltyOnce ==
    [][(TimeoutTick \/ restart_game_endpoint) =>
            \A p \in DOMAIN gw.players :
                /\ gw'.scores[p] =
                        gw.scores[p] - gw.players[p].health * life_penalty
                /\ plot_game_statistics(gw')[p] =
                        gw.scores[p] - gw.players[p].health * life_penalty]_vars

\* C8: restart_game has no precondition and no failure: the call returns
\* normally in every state.
RestartReturns ==
    [][restart_game_endpoint => ~restart_game(gw).raised]_vars

\* the state the reset protocol leaves, g being the state before it
AfterReset(g, h) ==
    /\ h.waiting_for_players /\ ~h.game_started /\ ~h.countdown_active
    /\ h.countdown_seconds_remaining = 0
    /\ h.shot_count = 0
    /\ h.player_collisions = 0
    /\ h.objects = EmptyFn
    /\ h.obstacles = 1..NumObstacles
    /\ DOMAIN h.players = DOMAIN g.players
    /\ \A p \in DOMAIN h.players :
            h.players[p].health = PLAYER_START_HEALTH /\ ~h.players[p].ready

\* C9: after a restart the phase is WAITING, the countdown is inactive with
\* remaining time 0, the shot and collision counters are 0, no projectile is
\* registered, the 8 obstacles are present once each, and every player
\* registered before is registered under the same identity with full health
\* and readiness false.
RestartResets ==
    [][restart_game_endpoint => AfterReset(gw, gw')]_vars

\* C10: the tick that finds the RUNNING match older than MAX_GAME_DURATION
\* resets the session to WAITING, and the tick loop keeps running.
TimeoutResetsAndLoopRuns ==
    [][TimeoutTick =>
            /\ gw'.waiting_for_players /\ ~gw'.game_started
            /\ task_alive']_vars

\* a shape at pos overlaps the shape of a player or of an obstacle of g
Overlaps(g, pos) ==
    \/ \E q \in DOMAIN g.players :
            g.players[q].in_space /\ g.players[q].position = pos
    \/ \E i \in g.obstacles : pos = ObstaclePlace(i)

\* every one of the max_attempts tries meets an overlap
AllTriesOverlap(g, draws) ==
    /\ Overlaps(g, centre)
    /\ \A i \in DOMAIN draws : Overlaps(g, draws[i])

SpawnSearchBounded ==
    \A player_id \in Ids \ DOMAIN gw.scores : \A draws \in Draws :
        LET r == add_player(gw, player_id, draws)
        IN  /\ r.tries <= max_attempts
            /\ (~gw.game_started /\ AllTriesOverlap(gw, draws)) =>
                    /\ r.tries = max_attempts
                    /\ r.ret = None
                    /\ r.gw = gw

\* a connect can find every try overlapping: the centre is taken and so is
\* every place drawn
SpawnCanExhaust ==
    /\ ~gw.game_started
    /\ Ids \ DOMAIN gw.scores # {}
    /\ InSpace(gw) # {}
    /\ \E draws \in Draws : AllTriesOverlap(gw, draws)

\* C13: the answer to a connect that exhausted its placement tries differs
\* from the answer to a successful connect and from the answer to a connect
\* refused because the match is RUNNING.
SpawnFailureDistinct ==
    \A player_id \in Ids \ DOMAIN gw.scores : \A draws \in Draws :
        (~gw.game_started /\ AllTriesOverlap(gw, draws)) =>
            LET answer == connect_player_response(gw, player_id, draws)
                refused == connect_player_response(
                    [gw EXCEPT !.game_started = TRUE], player_id, draws)
            IN  answer.player_id # player_id /\ answer # refused

\* C14: a connect issued while the phase is RUNNING registers no player and
\* leaves the registry, the score ledger and the colour index unchanged; the
\* set of registered players never grows while the phase is RUNNING.
RunningAdmitsNobody ==
    /\ [](gw.game_started =>
            \A player_id \in Ids \ DOMAIN gw.scores : \A draws \in Draws :
                /\ add_player(gw, player_id, draws).gw = gw
                /\ add_player(gw, player_id, draws).ret = None)
    /\ [][gw.game_started =>
            DOMAIN gw'.players \subseteq DOMAIN gw.players]_vars

\* a match runs while an identity is still to be handed out
RunningWithNewcomer ==
    /\ gw.game_started
    /\ DOMAIN gw.players # {}
    /\ Ids \ DOMAIN gw.scores # {}

\* the spawn protection of player p has not expired
Protected(g, p) == now < g.players[p].spawn_protection_until

ShootRefusedUnderProtection ==
    gw.game_started =>
        \A p \in DOMAIN gw.players :
            Protected(gw, p) => shoot(gw, now, p) = gw

\* a match runs and a registered player is still protected
ProtectedInMatch ==
    gw.game_started /\ \E p \in DOMAIN gw.players : Protected(gw, p)

\* C17: while the spawn protection of a player has not expired, no projectile
\* hit and no obstacle collision changes the player's health.
ProtectedHealthUntouched ==
    [][\A p \in DOMAIN gw.players \cap DOMAIN gw'.players :
            Protected(gw, p) =>
                gw'.players[p].health = gw.players[p].health]_vars

\* the only player there ever was has hit an obstacle at speed and is
\* protected, with its health intact
ProtectedAfterCollision ==
    /\ gw.player_collisions > 0
    /\ Cardinality(DOMAIN gw.scores) = 1
    /\ \E p \in DOMAIN gw.players :
            Protected(gw, p) /\ gw.players[p].health = PLAYER_START_HEALTH

\* C18: at the moment the phase becomes RUNNING every registered player is
\* under spawn protection (the expiry lies after the start timestamp), also
\* a player that connected and turned ready after the countdown had started.
AllProtectedAtStart ==
    [][(~gw.game_started /\ gw'.game_started) =>
            \A p \in DOMAIN gw'.players :
                gw'.start_time < gw'.players[p].spawn_protection_until]_vars

\* C19: a countdown during which some registered player was not ready never
\* leads to RUNNING, and a countdown always starts from the full
\* COUNTDOWN_DURATION.
BrokenCountdownNeverStarts ==
    [][/\ (gw.countdown_active /\ gw.unready_in_countdown) =>
                ~gw'.game_started
       /\ (~gw.countdown_active /\ gw'.countdown_active) =>
                gw'.countdown_seconds_remaining =
                    COUNTDOWN_DURATION * TicksPerSecond]_vars

\* C20: the tick that finds the registry empty leaves the phase WAITING,
\* the countdown inactive with remaining time 0, and the shot counter, the
\* collision counter and the colour index at 0, whatever the phase was; a
\* connect is accepted afterwards.
EmptySessionIsReset ==
    [][(Tick /\ DOMAIN gw.players = {}) =>
            /\ gw'.waiting_for_players
            /\ ~gw'.game_started /\ ~gw'.countdown_active
            /\ gw'.countdown_seconds_remaining = 0
            /\ gw'.shot_count = 0
            /\ gw'.player_collisions = 0
            /\ gw'.next_color_index = 0]_vars

\* C21: shoot in RUNNING by a registered player without spawn protection
\* registers exactly one new projectile, owned by the player and with the
\* full lifetime, raises the player's shots_fired and the session's
\* shot_count by one each and lowers the player's score by shot_penalty;
\* no other player, no other projectile and no other score changes.
ShootFiresOnce ==
    gw.game_started =>
        \A p \in DOMAIN gw.players :
            ~Protected(gw, p) =>
                LET h == shoot(gw, now, p)
                    n == Cardinality(DOMAIN gw.objects)
                IN  /\ DOMAIN h.objects = DOMAIN gw.objects \cup {n + 1}
                    /\ n + 1 \notin DOMAIN gw.objects
                    /\ \A j \in DOMAIN gw.objects : h.objects[j] = gw.objects[j]
                    /\ h.objects[n + 1] =
                            [owner |-> p,
                             lifetime |-> PROJECTILE_LIFETIME_SECONDS
                                            * TicksPerSecond]
                    /\ h.players[p] =
                            [gw.players[p] EXCEPT !.shots_fired = @ + 1]
                    /\ h.shot_count = gw.shot_count + 1
                    /\ h.scores[p] = gw.scores[p] - shot_penalty
                    /\ DOMAIN h.players = DOMAIN gw.players
                    /\ \A q \in DOMAIN gw.players \ {p} :
                            h.players[q] = gw.players[q]
                    /\ DOMAIN h.scores = DOMAIN gw.scores
                    /\ \A q \in DOMAIN gw.scores \ {p} :
                            h.scores[q] = gw.scores[q]

\* the projectile of a shot just fired is registered, and another player
\* could be affected
ShotJustFired ==
    /\ gw.game_started
    /\ Cardinality(DOMAIN gw.players) = 2
    /\ \E j \in DOMAIN gw.objects :
            /\ gw.objects[j].lifetime = PROJECTILE_LIFETIME_SECONDS * TicksPerSecond
            /\ gw.objects[j].owner \in DOMAIN gw.players
            /\ gw.players[gw.objects[j].owner].shots_fired > 0
            /\ ~Protected(gw, gw.objects[j].owner)

\* C22: a projectile that touches a player other than its owner (the player
\* not being under spawn protection) lowers the player's health by
\* PROJECTILE_DAMAGE and raises the shooter's score by hit_points; exactly
\* when the health reaches 0 or less the shooter also gets kill_points and
\* the player leaves the registry; the projectile is removed in every case.
HitDamagesAndRewards ==
    \A j \in DOMAIN gw.objects : \A p \in InSpace(gw) :
        LET owner == gw.objects[j].owner
            h == projectile_hit_player(gw, now, j, owner, p)
            dead == gw.players[p].health - PROJECTILE_DAMAGE <= 0
        IN  (owner # p /\ ~Protected(gw, p)) =>
                /\ p \in DOMAIN h.players =>
                        h.players[p].health =
                            gw.players[p].health - PROJECTILE_DAMAGE
                /\ h.scores[owner] = gw.scores[owner] + hit_points
                        + (IF dead THEN kill_points ELSE 0)
                /\ dead <=> p \notin DOMAIN h.players
                /\ j \notin DOMAIN h.objects

\* C23: the owner of every registered projectile is a registered player.
ProjectileOwnersRegistered ==
    \A j \in DOMAIN gw.objects : gw.objects[j].owner \in DOMAIN gw.players

\* C27: a pass of the visualizer's loop changes nothing of the session: no
\* projectile's lifetime, no registry, no body.
VisualizerReadsOnly ==
    [][run_visualizer => gw' = gw]_vars

\* C30: the tick that evaluates the match-duration timeout has advanced the
\* physics and updated the entities before: every projectile has aged by
\* one tick or is removed.
PhysicsBeforePhases ==
    [][TimeoutTick =>
            \E s \in ContactSeqs(gw) :
                gw'.objects = sprite_updates(space_step(gw, now, s)).objects]_vars

(* ------------------------ the noise of a scan ------------------------- *)
\* ScanSpec follows the entries of nearby_objects that scan_environment
\* builds, lines 554-651: the true values come from the bodies of pymunk,
\* the noise from random.uniform.  Positions and velocities are in
\* hundredths; a distance is in whole units and a reported distance in
\* units of 1 / DistanceScale, so that the product with the noise factor is
\* exact.
DistanceScale == 100 * NoiseGrid

Abs(x) == IF x < 0 THEN -x ELSE x

\* random.uniform(-a, a)
uniform(a) == {(a * k) \div NoiseGrid : k \in -NoiseGrid..NoiseGrid}

\* the numerators k of the draws of random.uniform for the distance noise
DistanceDraws == -NoiseGrid..NoiseGrid

\* noise_factor_distance = 1 + random.uniform(-pct, pct), times DistanceScale
noise_factor_distance(k) == DistanceScale + DISTANCE_NOISE_MAX_PERCENTAGE * k

\* the distance without the clamp at 0: the fault that
\* ScanNoiseBoundedOrClamped tells from the code
noisy_distance_unclamped(distance, k) ==
    distance * noise_factor_distance(k)

\* noisy_distance = max(0, distance * noise_factor_distance)
noisy_distance(distance, k) ==
    Max({0, distance * noise_factor_distance(k)})

\* the true values of one entity within the scanning radius
TrueValues == {100 * v : v \in -MaxTrue..MaxTrue}
TrueDistances == -MaxTrue..MaxTrue
EntityTypes == {"obstacle", "projectile", "other_player", "border"}

\* one entry of nearby_objects with the true values it was built from; a
\* border has no relative_velocity
nearby_object(type, pos, vel, distance, upos, uvel, k) ==
    [type |-> type,
     true_position |-> pos,
     true_velocity |-> IF type = "border" THEN <<>> ELSE vel,
     true_distance |-> distance,
     relative_position |-> <<pos[1] + upos[1], pos[2] + upos[2]>>,
     relative_velocity |->
        IF type = "border" THEN <<>>
        ELSE <<vel[1] + uvel[1], vel[2] + uvel[2]>>,
     distance |-> noisy_distance(distance, k)]

ScanInit ==
    /\ gw = GameWorld
    /\ task_alive = TRUE
    /\ player_cooldowns = EmptyFn
    /\ clock = StartClock
    /\ scanned = <<>>
    /\ DetailInit

\* scan_environment starts: nearby_objects_relative = []
scan_starts ==
    /\ scanned # <<>>
    /\ scanned' = <<>>
    /\ UNCHANGED <<session, limiter, detail>>

\* scan_environment appends the entry of one entity
scan_entity ==
    /\ Len(scanned) < MaxEntries
    /\ \E type \in EntityTypes, x \in TrueValues, vx \in TrueValues,
          distance \in TrueDistances,
          ux \in uniform(POSITION_NOISE_MAX_OFFSET),
          uy \in uniform(POSITION_NOISE_MAX_OFFSET),
          uvx \in uniform(VELOCITY_NOISE_MAX_OFFSET),
          uvy \in uniform(VELOCITY_NOISE_MAX_OFFSET),
          k \in DistanceDraws :
            scanned' = Append(scanned,
                nearby_object(type, <<x, -x>>, <<vx, -vx>>, distance,
                              <<ux, uy>>, <<uvx, uvy>>, k))
    /\ UNCHANGED <<session, limiter, detail>>

ScanNext == scan_starts \/ scan_entity

ScanSpec == ScanInit /\ [][ScanNext]_vars

\* the noise of the position and of the velocity of entry e is within the
\* offsets
OffsetsBounded(e) ==
    /\ \A i \in 1..2 :
            Abs(e.relative_position[i] - e.true_position[i])
                <= POSITION_NOISE_MAX_OFFSET
    /\ \A i \in DOMAIN e.relative_velocity :
            Abs(e.relative_velocity[i] - e.true_velocity[i])
                <= VELOCITY_NOISE_MAX_OFFSET

\* the reported distance of entry e is within the percentage of the true one
DistanceWithinPercentage(e) ==
    Abs(e.distance - e.true_distance * DistanceScale) * 100
        <= DISTANCE_NOISE_MAX_PERCENTAGE * Abs(e.true_distance) * DistanceScale

\* C29 as stated: in every entry of a scan each component of the position
\* and of the velocity is within its offset of the true value, the distance
\* is within the percentage of the true distance, and the distance is not
\* negative, also when the true distance is.
ScanNoiseBounded ==
    \A i \in DOMAIN scanned :
        /\ OffsetsBounded(scanned[i])
        /\ DistanceWithinPercentage(scanned[i])
        /\ scanned[i].distance >= 0

\* C29 amended: the offsets bound the position and the velocity; the
\* distance is never negative; it is within the percentage of the true
\* distance when that is not negative, and 0 when it is.
ScanNoiseBoundedOrClamped ==
    \A i \in DOMAIN scanned :
        /\ OffsetsBounded(scanned[i])
        /\ scanned[i].distance >= 0
        /\ scanned[i].true_distance >= 0 =>
                DistanceWithinPercentage(scanned[i])
        /\ scanned[i].true_distance < 0 => scanned[i].distance = 0

\* the entry of an entity whose shape overlaps the scanning player's
OverlapScanned ==
    \E i \in DOMAIN scanned :
        scanned[i].true_distance < 0 /\ scanned[i].type = "other_player"

\* C24: check_cooldown accepts a call exactly when the pair was never used
\* or the time since the pair's last accepted call is at least the interval;
\* an accepted call records the present as the pair's time and a rejected
\* one leaves every recorded time as it is.
CooldownAcceptance ==
    \A pe \in Ids \X Endpoints :
        LET c == check_cooldown(player_cooldowns, clock, pe[1], pe[2],
                                cooldown_of(pe[2]))
            used == pe \in stamped(player_cooldowns)
            elapsed == clock - player_cooldowns[pe[1]][pe[2]]
        IN  /\ c.status \in {200, 429}
            /\ c.status = 200 <=> (~used \/ elapsed >= cooldown_of(pe[2]))
            /\ c.status = 200 =>
                    /\ stamped(c.player_cooldowns) =
                            stamped(player_cooldowns) \cup {pe}
                    /\ \A qf \in stamped(c.player_cooldowns) :
                            c.player_cooldowns[qf[1]][qf[2]] =
                                IF qf = pe THEN clock
                                ELSE player_cooldowns[qf[1]][qf[2]]
            /\ c.status = 429 => c.player_cooldowns = player_cooldowns

\* one pair is inside its cooldown, another one has outlasted its own
CooldownsRunAndEnd ==
    /\ \E pe \in stamped(player_cooldowns) :
            clock - player_cooldowns[pe[1]][pe[2]] < cooldown_of(pe[2])
    /\ \E pe \in stamped(player_cooldowns) :
            clock - player_cooldowns[pe[1]][pe[2]] >= cooldown_of(pe[2])

\* C25: a call made less than the interval after an accepted call of the
\* same pair is rejected with a wait hint w, 0 < w <= interval, and a retry
\* made w after the rejection is accepted.
RetryAfterHintAccepted ==
    \A pe \in stamped(player_cooldowns) :
        clock - player_cooldowns[pe[1]][pe[2]] < cooldown_of(pe[2]) =>
            LET c == check_cooldown(player_cooldowns, clock, pe[1], pe[2],
                                    cooldown_of(pe[2]))
                retry == check_cooldown(c.player_cooldowns,
                                        clock + Units(c.wait), pe[1], pe[2],
                                        cooldown_of(pe[2]))
            IN  /\ c.status = 429
                /\ 0 < c.wait
                /\ Units(c.wait) <= cooldown_of(pe[2])
                /\ retry.status = 200

\* C26: every request that names an identity absent from the registry is
\* answered 404 (not found), whatever was requested before.
AbsentIdIsNotFound ==
    \A player_id \in Ids \ DOMAIN gw.players :
        /\ unlimited_response(gw, player_id) = 404
        /\ shoot_response(gw, player_cooldowns, clock, player_id).status = 404
        /\ get_player_own_state_response(
                gw, player_cooldowns, clock, player_id).status = 404
        /\ get_overall_game_state_response(
                gw, player_cooldowns, clock, player_id).status = 404

\* C28: a scan changes nothing of the world, in any phase, for a registered
\* and for an unknown identity.
ScanLeavesWorld ==
    \A player_id \in Ids :
        /\ scan_environment(gw, player_id).gw = gw
        /\ get_scan_environment_response(
                gw, player_cooldowns, clock, player_id).gw = gw

\* a match runs with a projectile in flight and two players, one of them
\* dead and still registered: everything a scan reads is there
ScanHasAllToRead ==
    /\ gw.game_started
    /\ gw.objects # EmptyFn
    /\ Cardinality(DOMAIN gw.players) = 2
    /\ \E p \in DOMAIN gw.players : ~gw.players[p].in_space

\* C39: the cooldown registry holds entries only for identities that were
\* registered players when the call was made: a scan, state or game-state
\* request with an unknown identity creates no entry.  (The requests of
\* ApiSpec leave the registered players as they are.)
RegistryHoldsPlayersOnly ==
    DOMAIN player_cooldowns \subseteq DOMAIN gw.players

\* C38: hit points go to a shooter only for a hit that lowers the victim's
\* health: a projectile that strikes a player under spawn protection leaves
\* every score as it is.
HitPointsOnlyForDamage ==
    \A j \in DOMAIN gw.objects : \A p \in InSpace(gw) :
        (gw.objects[j].owner # p /\ Protected(gw, p)) =>
            projectile_hit_player(gw, now, j, gw.objects[j].owner, p).scores
                = gw.scores

\* C34: with friendly fire disabled, a projectile that touches its own owner
\* is ignored: the owner's health, every score, the projectile and its
\* lifetime stay as they are; the tick with this contact leaves the world
\* that the tick without contact leaves.
OwnHitIgnored ==
    \A j \in DOMAIN gw.objects :
        LET owner == gw.objects[j].owner
            e == [kind |-> "projectile_player", p |-> owner, j |-> j,
                  fast |-> FALSE]
        IN  owner \in InSpace(gw) =>
                /\ projectile_hit_player(gw, now, j, owner, owner) = gw
                /\ update(gw, now, <<e>>) = update(gw, now, <<>>)

\* a projectile is registered whose owner's shape is in the space, the owner
\* being open to damage
OwnerInReach ==
    \E j \in DOMAIN gw.objects :
        /\ gw.objects[j].owner \in InSpace(gw)
        /\ ~Protected(gw, gw.objects[j].owner)
        /\ ~timed_out(gw, now)

\* the projectiles of g without projectile j, as the sprite updates of the
\* tick leave them
others_updated(g, j) ==
    sprite_updates([g EXCEPT !.objects = Without(@, j)]).objects

\* C32: every registered projectile has a lifetime above 0.  The tick in
\* which the lifetime reaches 0 or less removes it, and so does the tick
\* with its contact with a border or with its hit on a player other than
\* its owner: the projectile is gone and the others are as the tick leaves
\* them anyway.
RegisteredWhileAlive ==
    \A j \in DOMAIN gw.objects :
        /\ gw.objects[j].lifetime > 0
        /\ j \notin DOMAIN projectile_hit_border(gw, j).objects
        /\ gw.objects[j].lifetime - 1 <= 0 =>
                j \notin DOMAIN Projectile_update(gw, j).objects
        /\ \A p \in InSpace(gw) \ {gw.objects[j].owner} :
                j \notin DOMAIN projectile_hit_player(
                            gw, now, j, gw.objects[j].owner, p).objects
        /\ ~timed_out(gw, now) =>
            /\ gw.objects[j].lifetime - 1 <= 0 =>
                    update(gw, now, <<>>).gw.objects = others_updated(gw, j)
            /\ update(gw, now, <<[kind |-> "projectile_border", p |-> 0,
                                  j |-> j, fast |-> FALSE]>>).gw.objects
                    = others_updated(gw, j)
            /\ \A p \in InSpace(gw) \ {gw.objects[j].owner} :
                    update(gw, now, <<[kind |-> "projectile_player", p |-> p,
                                       j |-> j, fast |-> FALSE]>>).gw.objects
                        = others_updated(gw, j)

\* a projectile in its last tick shares the list with a younger one, and a
\* player other than its owner can be hit
LastTickOfProjectile ==
    /\ ~timed_out(gw, now)
    /\ \E j, k \in DOMAIN gw.objects :
            /\ gw.objects[j].lifetime = 1
            /\ gw.objects[k].lifetime > 1
            /\ InSpace(gw) \ {gw.objects[j].owner} # {}

\* every entity a scan could meet
Entities ==
    {<<"obstacle", i>> : i \in 1..NumObstacles}
        \cup {<<"projectile", j>> : j \in 1..MaxProjectiles}
        \cup {<<"other_player", q>> : q \in Ids}
        \cup {<<"border", b>> : b \in 1..NumBorders}

\* the sets of entities in reach that are looked at: all, all but one, one,
\* none
NearSets ==
    {Entities, {}} \cup {Entities \ {e} : e \in Entities}
        \cup {{e} : e \in Entities}

\* C36: in RUNNING, for a registered observer, scan lists exactly the
\* obstacles, the registered projectiles, the border segments and the other
\* registered players of health above 0 that are within the scanning
\* radius; never the observer, never a player of health 0 or less; outside
\* RUNNING or for an unknown identity it lists nothing.
ScanListsLiveEntities ==
    \A player_id \in Ids : \A near \in NearSets :
        scan_records(gw, player_id, near) =
            IF gw.game_started /\ player_id \in DOMAIN gw.players
            THEN {e \in near :
                    \/ e[1] = "obstacle" /\ e[2] \in gw.obstacles
                    \/ e[1] = "projectile" /\ e[2] \in DOMAIN gw.objects
                    \/ e[1] = "border"
                    \/ /\ e[1] = "other_player"
                       /\ e[2] \in DOMAIN gw.players \ {player_id}
                       /\ gw.players[e[2]].health > 0}
            ELSE {}

\* the change of the score of a in the step
score_change(a) == gw'.scores[a] - gw.scores[a]

\* C37: a score changes only by a named event: -shot_penalty for the shot of
\* its player, +hit_points per hit, +kill_points per kill and
\* -collision_penalty per damaging obstacle collision in a tick with
\* contacts, -health * life_penalty when the match ends; an entry is new only
\* when its identity is registered, and is 0 then.  A tick without contact
\* and every other operation leave every score as it is, and no entry is
\* ever removed.
ScoresChangeByEventsOnly ==
    [][/\ DOMAIN gw.scores \subseteq DOMAIN gw'.scores
       /\ update(gw, now, <<>>).gw.scores # gw.scores => timed_out(gw, now)
       /\ \A a \in DOMAIN gw'.scores \ DOMAIN gw.scores :
            connect_player /\ gw'.scores[a] = 0
       /\ \A a \in DOMAIN gw.scores :
            score_change(a) # 0 =>
                \/ shoot_endpoint(a) /\ score_change(a) = -shot_penalty
                \/ /\ TimeoutTick \/ restart_game_endpoint
                   /\ a \in DOMAIN gw.players
                   /\ score_change(a) = -gw.players[a].health * life_penalty
                \/ /\ Tick /\ ~timed_out(gw, now)
                   /\ \E hits, kills, hard \in 0..MaxContacts :
                        /\ kills <= hits
                        /\ score_change(a) = hits * hit_points
                                + kills * kill_points
                                - hard * collision_penalty]_vars

(* ---------------------- the contacts of a player ---------------------- *)
\* ContactSpec follows Triangle.collisions, the counter of each player's
\* sprite, through the begin callbacks that pymunk makes for the shape of a
\* player in a match of two players: the callbacks of one step run one
\* after the other, each is an action here.

\* the players that can touch an obstacle: in the space and set in motion
Movers(g) == {p \in InSpace(g) : g.players[p].impulse}

\* player_hit_obstacle, lines 378-379: player_sprite.collisions += 1
collisions_after_obstacle(c, pid, fast) ==
    IF fast THEN [c EXCEPT ![pid] = @ + 1] ELSE c

\* on_player_collision: player.collisions += 1 for both sprites
collisions_after_players(c, pair) ==
    [p \in DOMAIN c |-> IF p \in pair THEN c[p] + 1 ELSE c[p]]

\* the worlds in which a match of two players has just started: both have
\* connected and turned ready, and the tick has ended the countdown
ContactWorlds ==
    {seen(update(
            player_ready(
                player_ready(
                    add_player(add_player(GameWorld, 1, draws).gw, 2, draws).gw,
                    now, 1),
                now, 2),
            now, <<>>).gw) : draws \in Draws}

ContactInit ==
    /\ gw \in {g \in ContactWorlds :
                    g.game_started /\ DOMAIN g.players = {1, 2}}
    /\ task_alive = TRUE
    /\ player_cooldowns = EmptyFn
    /\ clock = StartClock
    /\ scanned = <<>>
    /\ collisions = [p \in {1, 2} |-> 0]
    /\ flight = <<>>
    /\ loop = <<>>

\* the begin callback of handler_player_obstacle
player_obstacle_begin(player_id, fast) ==
    /\ player_id \in Movers(gw)
    /\ fast => gw.player_collisions < MaxCollisions
    /\ gw' = seen(player_hit_obstacle(gw, now, player_id, fast))
    /\ collisions' = collisions_after_obstacle(collisions, player_id, fast)
    /\ UNCHANGED <<task_alive, limiter, scanned, flight, loop>>

\* the begin callback of the handler of two players
player_player_begin ==
    /\ Cardinality(InSpace(gw)) = 2
    /\ \E p \in InSpace(gw) : gw.players[p].impulse
    /\ \A p \in InSpace(gw) : collisions[p] < MaxBumps
    /\ gw' = seen(on_player_collision(gw))
    /\ collisions' = collisions_after_players(collisions, InSpace(gw))
    /\ UNCHANGED <<task_alive, limiter, scanned, flight, loop>>

ContactNext ==
    \/ \E player_id \in Ids : thrust_forward(player_id)
    \/ \E player_id \in Ids, fast \in BOOLEAN :
            player_obstacle_begin(player_id, fast)
    \/ player_player_begin
    \/ Elapse

ContactSpec == ContactInit /\ [][ContactNext]_vars

\* C35 as stated: a contact of a player with an obstacle at 90 % of
\* PLAYER_MAX_SPEED or more lowers the player's health by OBSTACLE_DAMAGE,
\* raises its collision counter by one and lowers its score by the collision
\* penalty; a slower contact changes none of the three.
ObstacleContactDamages ==
    \A p \in Movers(gw) : \A fast \in BOOLEAN :
        LET h == player_hit_obstacle(gw, now, p, fast)
            c == collisions_after_obstacle(collisions, p, fast)
        IN  IF fast
            THEN /\ h.players[p].health = gw.players[p].health - OBSTACLE_DAMAGE
                 /\ c[p] = collisions[p] + 1
                 /\ h.scores[p] = gw.scores[p] - collision_penalty
            ELSE /\ h.players[p].health = gw.players[p].health
                 /\ c[p] = collisions[p]
                 /\ h.scores[p] = gw.scores[p]

\* C35 amended: the health drops by OBSTACLE_DAMAGE unless the player is
\* under spawn protection, in which case it stays; the counter and the score
\* change as stated, once; a slower contact changes none of the three, and
\* no contact changes the health, the counter or the score of another player.
ObstacleContactCounted ==
    \A p \in Movers(gw) : \A fast \in BOOLEAN :
        LET h == player_hit_obstacle(gw, now, p, fast)
            c == collisions_after_obstacle(collisions, p, fast)
        IN  /\ IF fast
               THEN /\ h.players[p].health =
                            IF Protected(gw, p) THEN gw.players[p].health
                            ELSE gw.players[p].health - OBSTACLE_DAMAGE
                    /\ c[p] = collisions[p] + 1
                    /\ h.scores[p] = gw.scores[p] - collision_penalty
               ELSE /\ h.players[p].health = gw.players[p].health
                    /\ c[p] = collisions[p]
                    /\ h.scores[p] = gw.scores[p]
            /\ \A q \in DOMAIN gw.players \ {p} :
                    /\ h.players[q] = gw.players[q]
                    /\ c[q] = collisions[q]
                    /\ h.scores[q] = gw.scores[q]

\* a moving player without protection has lost health and has been counted
\* more often than it was damaged
CountedPlayerMoves ==
    \E p \in InSpace(gw) :
        /\ gw.players[p].impulse
        /\ ~Protected(gw, p)
        /\ gw.players[p].health < PLAYER_START_HEALTH
        /\ collisions[p] > PLAYER_START_HEALTH - gw.players[p].health

(* ------------------- the lifetime of a projectile --------------------- *)
\* FlightSpec follows one projectile from Projectile.__init__ to its removal
\* by Projectile.update, with the lifetime as the binary64 number that
\* Python keeps: self.lifetime -= dt rounds the difference to 53 significant
\* bits, to the nearest, ties to even.  A number counts units of
\* 2^-FracBits; it is a sequence of Limbs digits of LimbBits bits each, the
\* lowest first.  PHYSICS_DT = 1 / FPS lies between 2^-6 and 2^-5, so its
\* last bit is worth 2^-58, and so is the last bit of every difference of a
\* lifetime and PHYSICS_DT.
Base == 2 ^ LimbBits

\* the whole number n of seconds (FracBits = (Limbs - 1) * LimbBits + 13)
Seconds(n) ==
    [i \in 1..Limbs |->
        IF i = Limbs THEN n * 2 ^ (FracBits - (Limbs - 1) * LimbBits) ELSE 0]

\* the number of bits of the digit d
BitLength(d) == Max({0} \cup {b \in 1..LimbBits : d >= 2 ^ (b - 1)})

\* the highest bit set, 0 if none is
Top(x) ==
    LET i == Max({0} \cup {k \in DOMAIN x : x[k] # 0})
    IN  IF i = 0 THEN 0 ELSE (i - 1) * LimbBits + BitLength(x[i])

\* x <= y, by the digits from digit i down
RECURSIVE LessEq(_, _, _)
LessEq(x, y, i) ==
    IF i = 0 THEN TRUE
    ELSE IF x[i] # y[i] THEN x[i] < y[i]
    ELSE LessEq(x, y, i - 1)

\* the digits of x - y from digit i on, for y <= x; borrow comes from the
\* digits below
RECURSIVE Minus(_, _, _, _)
Minus(x, y, i, borrow) ==
    IF i > Limbs THEN <<>>
    ELSE <<(x[i] - y[i] - borrow) % Base>>
            \o Minus(x, y, i + 1, IF x[i] - y[i] - borrow < 0 THEN 1 ELSE 0)

\* the digits of x + carry * Base^(i-1) from digit i on
RECURSIVE Plus(_, _, _)
Plus(x, i, carry) ==
    IF i > Limbs THEN <<>>
    ELSE <<(x[i] + carry) % Base>> \o Plus(x, i + 1, (x[i] + carry) \div Base)

\* x rounded to Mantissa significant bits, to the nearest, ties to even.  The
\* bits that go are fewer than LimbBits: x < 2^(Limbs * LimbBits).
RoundNearestEven(x) ==
    LET k == Top(x) - Mantissa
    IN  IF k <= 0 THEN x
        ELSE LET low == x[1] % (2 ^ k)
                 half == 2 ^ (k - 1)
                 odd == (x[1] \div (2 ^ k)) % 2 = 1
                 cut == [x EXCEPT ![1] = @ - low]
             IN  IF low > half \/ (low = half /\ odd)
                 THEN <<(cut[1] + 2 ^ k) % Base>>
                        \o Plus(cut, 2, (cut[1] + 2 ^ k) \div Base)
                 ELSE cut

\* the quotient of the number x by the small whole number d, digits i down
\* to 1, with the remainder r carried from the digits above
RECURSIVE Quotient(_, _, _, _)
Quotient(x, d, i, r) ==
    IF i = 0 THEN [q |-> <<>>, r |-> r]
    ELSE [q |-> Append(Quotient(x, d, i - 1, (r * Base + x[i]) % d).q,
                       (r * Base + x[i]) \div d),
          r |-> Quotient(x, d, i - 1, (r * Base + x[i]) % d).r]

\* settings.py: PHYSICS_DT = 1 / FPS, the quotient rounded to the nearest
\* (its Mantissa bits end at the last unit, so the rounding is that of the
\* last unit)
PHYSICS_DT ==
    LET d == Quotient(Seconds(1), FPS, Limbs, 0)
    IN  IF 2 * d.r > FPS \/ (2 * d.r = FPS /\ d.q[1] % 2 = 1)
        THEN Plus(d.q, 1, 1)
        ELSE d.q

\* Projectile.update(dt), lines 303-305, on the float: the lifetime left, or
\* <<>> when the projectile is removed
lifetime_after(lifetime, dt) ==
    IF LessEq(lifetime, dt, Limbs) THEN <<>>
    ELSE <<RoundNearestEven(Minus(lifetime, dt, 1, 0))>>

FlightInit ==
    /\ gw = GameWorld
    /\ task_alive = TRUE
    /\ player_cooldowns = EmptyFn
    /\ clock = StartClock
    /\ scanned = <<>>
    /\ collisions = <<>>
    /\ flight = <<>>
    /\ loop = <<>>

\* GameWorld.shoot creates the projectile: Projectile.__init__, line 261
projectile_fired ==
    /\ flight = <<>>
    /\ flight' = <<[lifetime |-> Seconds(PROJECTILE_LIFETIME_SECONDS),
                    ticks |-> 0]>>
    /\ UNCHANGED <<session, limiter, scanned, collisions, loop>>

\* a tick of the physics loop without contact: shape.sprite_ref.update(dt),
\* game_world.py:388-390; ticks counts the ticks the projectile has seen
projectile_tick ==
    /\ flight # <<>>
    /\ LET left == lifetime_after(flight[1].lifetime, PHYSICS_DT)
       IN  flight' = IF left = <<>> THEN <<>>
                     ELSE <<[lifetime |-> left[1],
                             ticks |-> flight[1].ticks + 1]>>
    /\ UNCHANGED <<session, limiter, scanned, collisions, loop>>

FlightNext == projectile_fired \/ projectile_tick

FlightSpec == FlightInit /\ [][FlightNext]_vars

\* C33: a projectile is gone from the registry at the latest after
\* ceil(PROJECTILE_LIFETIME_SECONDS / dt) ticks: none is registered that
\* has seen that many ticks.
ProjectileGoneInTime ==
    flight # <<>> => flight[1].ticks < PROJECTILE_LIFETIME_SECONDS * FPS

(* --------------------------- the event loop --------------------------- *)
\* LoopSpec follows the coroutines of the server's event loop statement by
\* statement: the physics task (_run_physics_loop, started by startup_event
\* on the loop of the server) and the request handlers, all of them
\* `async def`.  The event loop runs a coroutine until it awaits or returns
\* and only then takes the next one.  _run_physics_loop awaits in
\* asyncio.sleep(dt), after self.update(dt) has returned; connect_player
\* awaits request.json() before it touches the world; the other handlers do
\* not await.  loop.tick is the number of steps of update that the physics
\* task has made since it last awaited, loop.handler the handler that has
\* started and not returned.

\* the event loop is free to take the next coroutine: none is between two
\* awaits, whatever the state of the world
free_always(l) == TRUE

\* the event loop is free to take the next coroutine: none is between two
\* awaits
free(l) == l.tick = 0 /\ l.handler = "none"

\* GameWorld.update, lines 375-383, at time t: the start time and the
\* timeout
update_timeout(g, t) ==
    IF timed_out(g, t)
    THEN restart_game(on_game_end(g, remaining(g)))
    ELSE [gw |-> IF g.game_started /\ g.start_time = NoTime
                 THEN [g EXCEPT !.start_time = t] ELSE g,
          raised |-> FALSE,
          recorded |-> EmptyFn]

\* GameWorld.player_ready, lines 249-256: the flag; checks tells whether
\* check_if_all_players_ready is called next
player_ready_sets(g, player_id) ==
    IF player_id \notin DOMAIN g.players THEN [gw |-> g, checks |-> FALSE]
    ELSE IF g.game_started THEN [gw |-> g, checks |-> FALSE]
    ELSE IF ~g.players[player_id].ready
    THEN [gw |-> [g EXCEPT !.players[player_id].ready = TRUE],
          checks |-> TRUE]
    ELSE [gw |-> g, checks |-> FALSE]

\* start_physics_engine: is_running = True and the task is created
LoopStart ==
    [tick |-> 0, handler |-> "none", at |-> 0, player_id |-> 0,
     tick_began |-> GameWorld, s |-> <<>>, handler_began |-> GameWorld,
     is_running |-> TRUE, cancelled |-> FALSE, awaiting |-> FALSE]

LoopInit ==
    /\ gw = GameWorld
    /\ task_alive = TRUE
    /\ player_cooldowns = EmptyFn
    /\ clock = StartClock
    /\ scanned = <<>>
    /\ collisions = <<>>
    /\ flight = <<>>
    /\ loop = LoopStart

\* the handler returns (or raises): the event loop forgets it
returned(l) ==
    [l EXCEPT !.handler = "none", !.at = 0, !.player_id = 0,
              !.handler_began = GameWorld]

\* the handler name starts for player_id, past its lookup of the player
entered(l, name, player_id, g) ==
    [l EXCEPT !.handler = name, !.at = 1, !.player_id = player_id,
              !.handler_began = g]

\* _run_physics_loop wakes from asyncio.sleep and calls update: lines
\* 375-383.  An exception of update ends the task.
update_begins ==
    /\ free(loop)
    /\ task_alive /\ loop.is_running /\ ~loop.cancelled
    /\ \E s \in ContactSeqs(gw) :
        LET r == update_timeout(gw, now)
        IN  IF r.raised
            THEN /\ gw' = seen(r.gw)
                 /\ task_alive' = FALSE
                 /\ loop' = loop
            ELSE /\ gw' = r.gw
                 /\ task_alive' = TRUE
                 /\ loop' = [loop EXCEPT !.tick = 1, !.tick_began = gw, !.s = s]
    /\ UNCHANGED <<limiter, scanned, collisions, flight>>

\* update, line 385: self.space.step(dt)
update_steps ==
    /\ loop.tick = 1
    /\ gw' = space_step(gw, now, loop.s)
    /\ loop' = [loop EXCEPT !.tick = 2]
    /\ UNCHANGED <<task_alive, limiter, scanned, collisions, flight>>

\* update, lines 386-390: the sprites
update_sprites ==
    /\ loop.tick = 2
    /\ gw' = sprite_updates(gw)
    /\ loop' = [loop EXCEPT !.tick = 3]
    /\ UNCHANGED <<task_alive, limiter, scanned, collisions, flight>>

\* update, lines 392-410: the countdown
update_countdown ==
    /\ loop.tick = 3
    /\ gw' = countdown_logic(gw, now)
    /\ loop' = [loop EXCEPT !.tick = 4]
    /\ UNCHANGED <<task_alive, limiter, scanned, collisions, flight>>

\* update, lines 413-420, and the return to await asyncio.sleep(dt)
update_ends ==
    /\ loop.tick = 4
    /\ gw' = seen(empty_session_reset(gw))
    /\ loop' = [loop EXCEPT !.tick = 0, !.tick_began = GameWorld, !.s = <<>>]
    /\ UNCHANGED <<task_alive, limiter, scanned, collisions, flight>>

\* stop_physics_engine, lines 456-464, called at any moment: is_running is
\* cleared and the task is asked to cancel
stop_physics_engine ==
    /\ loop.is_running
    /\ loop' = [loop EXCEPT !.is_running = FALSE, !.cancelled = task_alive]
    /\ UNCHANGED <<session, limiter, scanned, collisions, flight>>

\* the cancelled task gets CancelledError where it awaits
task_cancelled ==
    /\ free(loop)
    /\ task_alive /\ loop.cancelled
    /\ task_alive' = FALSE
    /\ UNCHANGED <<gw, limiter, scanned, detail>>

\* POST /connect, line 175: the handler awaits the body of the request
connect_player_awaits ==
    /\ free(loop)
    /\ ~loop.awaiting
    /\ Ids \ DOMAIN gw.scores # {}
    /\ loop' = [loop EXCEPT !.awaiting = TRUE]
    /\ UNCHANGED <<session, limiter, scanned, collisions, flight>>

\* POST /connect, lines 176-178: add_player
connect_player_adds ==
    /\ free(loop)
    /\ loop.awaiting
    /\ \E draws \in Draws :
        gw' = seen(add_player(gw, uuid4(gw), draws).gw)
    /\ loop' = [loop EXCEPT !.awaiting = FALSE]
    /\ UNCHANGED <<task_alive, limiter, scanned, collisions, flight>>

\* a handler with a lookup of the player starts: lines 163-164, 194-195,
\* 251-252; for an unknown player it raises 404
handler_enters(name, player_id) ==
    /\ free(loop)
    /\ loop' = IF player_id \in DOMAIN gw.players
               THEN entered(loop, name, player_id, gw)
               ELSE loop
    /\ UNCHANGED <<session, limiter, scanned, collisions, flight>>

\* POST /player/ready/{player_id}, line 165: player_ready, lines 249-256
ready_to_play_sets ==
    /\ loop.handler = "ready_to_play" /\ loop.at = 1
    /\ LET r == player_ready_sets(gw, loop.player_id)
       IN  IF r.checks
           THEN gw' = r.gw /\ loop' = [loop EXCEPT !.at = 2]
           ELSE gw' = seen(r.gw) /\ loop' = returned(loop)
    /\ UNCHANGED <<task_alive, limiter, scanned, collisions, flight>>

\* player_ready, line 258: check_if_all_players_ready
ready_to_play_checks ==
    /\ loop.handler = "ready_to_play" /\ loop.at = 2
    /\ gw' = seen(check_if_all_players_ready(gw, now))
    /\ loop' = returned(loop)
    /\ UNCHANGED <<task_alive, limiter, scanned, collisions, flight>>

\* POST /disconnect/{player_id}, line 196: remove_player
disconnect_player_removes ==
    /\ loop.handler = "disconnect_player" /\ loop.at = 1
    /\ gw' = seen(remove_player(gw, loop.player_id))
    /\ loop' = returned(loop)
    /\ UNCHANGED <<task_alive, limiter, scanned, collisions, flight>>

\* POST /player/{player_id}/shoot, lines 253-254, for a request that
\* check_cooldown lets pass
shoot_fires ==
    /\ loop.handler = "shoot" /\ loop.at = 1
    /\ gw' = seen(shoot(gw, now, loop.player_id))
    /\ loop' = returned(loop)
    /\ UNCHANGED <<task_alive, limiter, scanned, collisions, flight>>

\* the wall clock advances while no coroutine runs
time_passes == free(loop) /\ Elapse

LoopNext ==
    \/ update_begins
    \/ update_steps
    \/ update_sprites
    \/ update_countdown
    \/ update_ends
    \/ stop_physics_engine
    \/ task_cancelled
    \/ connect_player_awaits
    \/ connect_player_adds
    \/ \E player_id \in Ids : handler_enters("ready_to_play", player_id)
    \/ \E player_id \in Ids : handler_enters("disconnect_player", player_id)
    \/ \E player_id \in Ids :
            /\ fires(gw, now, player_id) =>
                    gw.shot_count < MaxShots
                        /\ Cardinality(DOMAIN gw.objects) < MaxProjectiles
            /\ handler_enters("shoot", player_id)
    \/ ready_to_play_sets
    \/ ready_to_play_checks
    \/ disconnect_player_removes
    \/ shoot_fires
    \/ time_passes

LoopSpec == LoopInit /\ [][LoopNext]_vars

\* what the handler name does to the world g for player_id, when nothing
\* else runs between its first and its last statement
handler_result(name, g, player_id) ==
    CASE name = "ready_to_play" -> player_ready(g, now, player_id)
      [] name = "disconnect_player" -> remove_player(g, player_id)
      [] OTHER -> shoot(g, now, player_id)

\* what every step of the event loop keeps to
AtomicStep ==
       /\ loop.tick > 0 =>
           /\ loop'.handler = "none" /\ loop.handler = "none"
           /\ loop'.awaiting = loop.awaiting
           /\ task_alive' = task_alive
       /\ loop.handler # "none" =>
           /\ loop'.tick = 0 /\ loop.tick = 0
           /\ loop'.awaiting = loop.awaiting
           /\ task_alive' = task_alive
       /\ (loop.tick > 0 /\ loop'.tick = 0) =>
           gw' = seen(update(loop.tick_began, now, loop.s).gw)
       /\ (loop.handler # "none" /\ loop'.handler = "none") =>
           gw' = seen(handler_result(loop.handler, loop.handler_began,
                                     loop.player_id))
       /\ (loop.is_running /\ ~loop'.is_running) =>
           loop'.tick = loop.tick /\ gw' = gw /\ task_alive' = task_alive
       /\ (task_alive /\ ~task_alive') =>
           /\ loop.tick = 0 /\ loop'.tick = 0
           /\ \/ loop.cancelled /\ gw' = gw
              \/ /\ ~loop.cancelled
                 /\ \E s \in ContactSeqs(gw) :
                       /\ update(gw, now, s).raised
                       /\ gw' = seen(update(gw, now, s).gw)

\* C31: a tick and a handler each act as one step on the world: while a
\* tick is between its first and its last statement no handler starts or
\* moves and the clock stands, and the other way round; the world a tick
\* leaves is the world update makes of the world the tick found, and the
\* world a handler leaves is the world its call makes of the world the
\* handler found; stopping the tick loop breaks off no tick and changes
\* nothing of the world, and the stopped task ends only when no tick is
\* under way.
OperationsAtomic == [][AtomicStep]_vars

\* a tick is past its physics step, with a projectile in flight, while a
\* request to connect waits for its turn
TickUnderWayRequestWaiting ==
    /\ loop.tick = 2
    /\ loop.awaiting
    /\ DOMAIN gw.objects # {}
    /\ gw.game_started

====
